---- MODULE Spec2Model ----
(***************************************************************************)
(* Messaging and notification core of Gamgyul_House_BE: chat sessions      *)
(* (chats/consumers.py), the chat REST views (chats/views.py), the         *)
(* WebSocketConnection registry (chats/models.py) and the notification     *)
(* signal handlers (notifications/signals.py).                             *)
(*                                                                         *)
(* Database tables are functions from primary key to row.  Every HTTP      *)
(* request and every consumer callback is split at its database            *)
(* operations where another request can run in between (Django runs in     *)
(* autocommit mode: config/settings.py sets no ATOMIC_REQUESTS).           *)
(***************************************************************************)
EXTENDS Naturals, Integers, Sequences, FiniteSets, Bags, TLC

Users == {"u1", "u2"}
Anonymous == "anon"
Rooms == {"r1"}
Posts == {"p1"}

MaxMsgs == 1
MaxSessions == 2
MaxConns == 2
MaxEvents == 3
MaxRecv == 1
MaxRoomReqs == 3

NoUser == "none"

VARIABLES
    participants,  \* ChatRoom rows: existing room id -> set of participants
    messages,      \* Message rows: id -> [room, sender, is_read]
    nextMsgId,     \* the Message id sequence
    conns,         \* WebSocketConnection rows: id -> [user, room, disconnected_at]
                   \* (disconnected_at: 0 for null, else the number of times it
                   \* was written; timezone.now() differs on every write)
    nextConnId,    \* the WebSocketConnection id sequence (connected_at order)
    notifs,        \* Notification rows, a bag of [recipient, sender, type, rel]
    sess,          \* chat consumers: session -> [state, user, room, code]
    group,         \* channel layer: sessions in their room group chat_<room_id>
    inbox,         \* channel layer: events queued for each session's channel
    frames,        \* the set of frames each consumer has sent to its client
    creates,       \* MessageViewSet.create requests: message id -> [pc, room, sender, is_read]
    retr,          \* ChatRoomViewSet.retrieve requests: user -> messages still to mark
    nRecv,         \* inbound frames received so far, over all sessions
    likes,         \* Like rows: set of [user, post]
    follows,       \* Follow rows: set of <<follower, following>>
    handlers,      \* the post_save receivers of Like, Comment and Follow run so
                   \* far: sequence of [type, recipient, sender, rel, pc]
    room_key,      \* ChatRoom.room_key: existing room id -> sorted participant ids
    roomReqs,      \* ChatRoomViewSet.create requests so far: sequence of
                   \* [user, list, key, pc, found]
    pushes,        \* channel layer: send_notification events sent so far, a bag
                   \* of [group, row] (group: the user of user_<id>_notifications)
    layer,         \* the channel layer backend: "up", or "down" (group_send raises)
    nsubs          \* channel layer: the notification connections in a user's
                   \* group, a set of [user, group] (user: the connection's scope user)

vars == <<participants, messages, nextMsgId, conns, nextConnId, notifs,
          sess, group, inbox, frames, creates, retr, nRecv, likes, follows, handlers, room_key, roomReqs,
          pushes, layer, nsubs>>

chatVars == <<participants, messages, nextMsgId, conns, nextConnId,
              sess, group, inbox, frames, creates, retr, nRecv, room_key, roomReqs,
              layer, nsubs>>
socialVars == <<likes, follows, handlers>>

Sessions == 1..MaxSessions
\* Spec and SpecRead follow one consumer through connect and disconnect; the
\* fanout specification runs all of Sessions
RegSessions == {1}

----------------------------------------------------------------------------
(* Helpers over tables *)

Without(f, S) == [x \in (DOMAIN f) \ S |-> f[x]]

RoomExists(r) == r \in DOMAIN participants

\* WebSocketConnection.objects.filter(user=u, chat_room=r)
ConnsOf(u, r) == {c \in DOMAIN conns : conns[c].user = u /\ conns[c].room = r}

SetMax(S) == CHOOSE x \in S : \A y \in S : y <= x
SetMin(S) == CHOOSE x \in S : \A y \in S : x <= y

----------------------------------------------------------------------------
(* Queries and updates shared by the handlers *)

\* chats/views.py: the liveness query of MessageViewSet.create
IsLiveAnyRecord(u, r) == ConnsOf(u, r) # {}
IsLive(u, r) == \E c \in ConnsOf(u, r) : conns[c].disconnected_at = 0

Pk(u) == IF u = "u1" THEN 1 ELSE IF u = "u2" THEN 2 ELSE 3

\* chat_room.participants.exclude(id=sender).first(); rows come back in
\* primary-key order, None (NoUser) when there is none
OtherUser(r, u) ==
    LET others == IF RoomExists(r) THEN participants[r] \ {u} ELSE {}
    IN IF others = {} THEN NoUser
       ELSE CHOOSE x \in others : \A y \in others : Pk(x) <= Pk(y)

\* Message.objects.filter(chat_room=r, is_read=False).exclude(sender=u)
UnreadForAnySender(u, r) ==
    {m \in DOMAIN messages : messages[m].room = r /\ ~messages[m].is_read}
UnreadFor(u, r) ==
    {m \in DOMAIN messages :
        messages[m].room = r /\ ~messages[m].is_read /\ messages[m].sender # u}

\* ...update(is_read=True): one UPDATE statement
MarkRead(u, r) ==
    [m \in DOMAIN messages |->
        IF m \in UnreadFor(u, r) THEN [messages[m] EXCEPT !.is_read = TRUE]
        ELSE messages[m]]

NotifRow(recipient, sender, type, rel) ==
    [recipient |-> recipient, sender |-> sender, type |-> type, rel |-> rel]

\* Notification.objects.filter(recipient, sender, notification_type, related_object_id).exists()
NotifExistsNever(row) == FALSE
NotifExists(row) == BagIn(row, notifs)

\* post_save receiver of Message, created=True.  The two branches on the
\* recipient's last connection only log; the notification is created in
\* either case.  The key holds the fresh message id, so no other handler
\* can create the same row between the check and the create.
MessageNotifsAll(r, sender, m) ==
    SetToBag({NotifRow(x, sender, "message", m) : x \in participants[r]})
MessageNotifs(r, sender, m) ==
    LET recipients == participants[r] \ {sender}
        rows == {NotifRow(x, sender, "message", m) : x \in recipients}
    IN SetToBag({row \in rows : ~NotifExists(row)})

\* send_notification_via_websocket for every row of the bag rows: one
\* send_notification event on user_<recipient>_notifications per row; an
\* exception of group_send is logged and swallowed
PushEvent(row) == [group |-> row.recipient, row |-> row]
SendNotifications(p, rows) ==
    IF layer = "up"
    THEN p (+) SetToBag({PushEvent(row) : row \in BagToSet(rows)})
    ELSE p

\* channel_layer.group_send(chat_<r>, ev) applied to the queues q
LiveStates == {"accepted", "open", "rejected"}
GroupSend(q, r, ev) ==
    [s \in Sessions |->
        IF s \in group /\ sess[s].room = r /\ sess[s].state \in LiveStates
        THEN Append(q[s], ev) ELSE q[s]]

ChatEvent(m, sender) == [type |-> "chat_message", mid |-> m, sender |-> sender]
RawChatEvent(mid) == [type |-> "chat_message", mid |-> mid, sender |-> "raw"]
ReadEvent(mid) == [type |-> "message_read", mid |-> mid, sender |-> NoUser]

----------------------------------------------------------------------------
(* MessageViewSet.create *)

\* get_chat_room_or_404, serializer.save(): INSERT with is_read = False,
\* then the post_save receiver.  Every notification it creates is pushed by
\* the post_save receiver of Notification and once more by the explicit call
\* of send_notification_via_websocket.
CreateInsert(u, r) ==
    /\ nextMsgId <= MaxMsgs
    /\ RoomExists(r) /\ u \in participants[r]
    /\ messages' = (nextMsgId :> [room |-> r, sender |-> u, is_read |-> FALSE]) @@ messages
    /\ notifs' = notifs (+) MessageNotifs(r, u, nextMsgId)
    /\ pushes' = SendNotifications(SendNotifications(pushes, MessageNotifs(r, u, nextMsgId)),
                                   MessageNotifs(r, u, nextMsgId))
    /\ creates' = [creates EXCEPT ![nextMsgId] =
                      [pc |-> "inserted", room |-> r, sender |-> u, is_read |-> FALSE]]
    /\ nextMsgId' = nextMsgId + 1
    /\ UNCHANGED <<participants, conns, nextConnId, sess, group, inbox,
                   frames, retr, nRecv, likes, follows, handlers, room_key, roomReqs, layer, nsubs>>

\* other_user lookup, message.is_read = False, then the liveness query
CreateCheck(m) ==
    /\ creates[m].pc = "inserted"
    /\ creates' = [creates EXCEPT
                      ![m].pc = "checked",
                      ![m].is_read = IsLive(OtherUser(creates[m].room, creates[m].sender),
                                            creates[m].room)]
    /\ UNCHANGED <<participants, messages, nextMsgId, conns, nextConnId,
                   notifs, sess, group, inbox, frames, retr, nRecv, likes, follows, handlers, room_key, roomReqs, pushes, layer, nsubs>>

\* message.save(): writes every field of the in-memory message.  When the
\* row is gone (room deleted) the INSERT fallback violates the room foreign
\* key and the request fails.
CreateSave(m) ==
    /\ creates[m].pc = "checked"
    /\ IF m \in DOMAIN messages
       THEN /\ messages' = [messages EXCEPT ![m].is_read = creates[m].is_read]
            /\ creates' = [creates EXCEPT ![m].pc = "saved"]
       ELSE /\ messages' = messages
            /\ creates' = [creates EXCEPT ![m].pc = "failed"]
    /\ UNCHANGED <<participants, nextMsgId, conns, nextConnId, notifs,
                   sess, group, inbox, frames, retr, nRecv, likes, follows, handlers, room_key, roomReqs, pushes, layer, nsubs>>

\* group_send of the chat_message event, then the 201 response; the call is
\* not guarded, so an exception of group_send ends the request with a 500
CreateBroadcast(m) ==
    /\ creates[m].pc = "saved"
    /\ IF layer = "up"
       THEN /\ inbox' = GroupSend(inbox, creates[m].room, ChatEvent(m, creates[m].sender))
            /\ creates' = [creates EXCEPT ![m].pc = "done"]
       ELSE /\ inbox' = inbox
            /\ creates' = [creates EXCEPT ![m].pc = "error"]
    /\ UNCHANGED <<participants, messages, nextMsgId, conns, nextConnId,
                   notifs, sess, group, frames, retr, nRecv, likes, follows, handlers, room_key, roomReqs, pushes, layer, nsubs>>

----------------------------------------------------------------------------
(* ChatRoomViewSet.retrieve and WebSocketConnection.mark_all_messages_as_read *)

\* get_chat_room_or_404 and the evaluation of the unread queryset
RetrieveStart(u, r) ==
    /\ retr[u] = {}
    /\ RoomExists(r) /\ u \in participants[r]
    /\ UnreadFor(u, r) # {}
    /\ retr' = [retr EXCEPT ![u] = UnreadFor(u, r)]
    /\ UNCHANGED <<participants, messages, nextMsgId, conns, nextConnId,
                   notifs, sess, group, inbox, frames, creates, nRecv, likes, follows, handlers, room_key, roomReqs, pushes, layer, nsubs>>

\* one turn of the loop: message.save(update_fields=["is_read"]); a row
\* deleted in the meantime makes save() raise and ends the request
RetrieveMark(u) ==
    /\ retr[u] # {}
    /\ LET m == SetMin(retr[u]) IN
       IF m \in DOMAIN messages
       THEN /\ messages' = [messages EXCEPT ![m].is_read = TRUE]
            /\ retr' = [retr EXCEPT ![u] = retr[u] \ {m}]
       ELSE /\ messages' = messages
            /\ retr' = [retr EXCEPT ![u] = {}]
    /\ UNCHANGED <<participants, nextMsgId, conns, nextConnId, notifs,
                   sess, group, inbox, frames, creates, nRecv, likes, follows, handlers, room_key, roomReqs, pushes, layer, nsubs>>

\* ChatRoomViewSet.leave
LeaveKeepsRoom(u, r) ==
    /\ RoomExists(r) /\ u \in participants[r]
    /\ participants' = [participants EXCEPT ![r] = participants[r] \ {u}]
    /\ UNCHANGED <<messages, conns, room_key>>
    /\ UNCHANGED <<nextMsgId, nextConnId, notifs, sess, group, inbox,
                   frames, creates, retr, nRecv, likes, follows, handlers, roomReqs, pushes, layer, nsubs>>
Leave(u, r) ==
    /\ RoomExists(r) /\ u \in participants[r]
    /\ IF participants[r] \ {u} = {}
       THEN /\ participants' = Without(participants, {r})
            /\ messages' = Without(messages, {m \in DOMAIN messages : messages[m].room = r})
            /\ conns' = Without(conns, {c \in DOMAIN conns : conns[c].room = r})
            /\ room_key' = Without(room_key, {r})
       ELSE /\ participants' = [participants EXCEPT ![r] = participants[r] \ {u}]
            /\ UNCHANGED <<messages, conns, room_key>>
    /\ UNCHANGED <<nextMsgId, nextConnId, notifs, sess, group, inbox,
                   frames, creates, retr, nRecv, likes, follows, handlers, roomReqs, pushes, layer, nsubs>>

\* WebSocketConnectionAdmin: the only place that creates WebSocketConnection
\* rows (ChatConsumer.record_connection has no caller)
AdminAddConnection(u, r, closed) ==
    /\ nextConnId <= MaxConns
    /\ RoomExists(r)
    /\ conns' = (nextConnId :> [user |-> u, room |-> r,
                                disconnected_at |-> IF closed THEN 1 ELSE 0]) @@ conns
    /\ nextConnId' = nextConnId + 1
    /\ UNCHANGED <<participants, messages, nextMsgId, notifs, sess, group, inbox,
                   frames, creates, retr, nRecv, likes, follows, handlers, room_key, roomReqs, pushes, layer, nsubs>>

----------------------------------------------------------------------------
(* ChatConsumer *)

EstablishedFrame == [status |-> "connection_established", mid |-> 0]
ReceivedFrame(m) == [status |-> "received", mid |-> m]
ReadFrame(mid) == [status |-> "read", mid |-> mid]

\* is_user_in_room: False for a missing room
IsUserInRoomAnyUser(r, u) == RoomExists(r)
IsUserInRoom(r, u) == RoomExists(r) /\ u \in participants[r]

\* connect up to accept() and the connection_established frame, or the
\* close with 4001 / 4002
ConnectAuth(s, u, r) ==
    /\ sess[s].state = "new"
    /\ \A t \in Sessions : t < s => sess[t].state # "new"
    /\ IF u = Anonymous
       THEN /\ sess' = [sess EXCEPT ![s] = [state |-> "rejected", user |-> u, room |-> r, code |-> 4001]]
            /\ UNCHANGED <<group, frames>>
       ELSE IF IsUserInRoom(r, u)
       THEN /\ sess' = [sess EXCEPT ![s] = [state |-> "accepted", user |-> u, room |-> r, code |-> 0]]
            /\ group' = group \cup {s}
            /\ frames' = [frames EXCEPT ![s] = frames[s] \cup {EstablishedFrame}]
       ELSE /\ sess' = [sess EXCEPT ![s] = [state |-> "rejected", user |-> u, room |-> r, code |-> 4002]]
            /\ UNCHANGED <<group, frames>>
    /\ UNCHANGED <<participants, messages, nextMsgId, conns, nextConnId,
                   notifs, inbox, creates, retr, nRecv, likes, follows, handlers, room_key, roomReqs, pushes, layer, nsubs>>

\* the rest of connect: mark_messages_as_read; ChatRoom.DoesNotExist is
\* caught by connect and closes with 4003.  No connection row is written.
ConnectMark(s) ==
    /\ sess[s].state = "accepted"
    /\ IF RoomExists(sess[s].room)
       THEN /\ messages' = MarkRead(sess[s].user, sess[s].room)
            /\ sess' = [sess EXCEPT ![s].state = "open"]
       ELSE /\ messages' = messages
            /\ sess' = [sess EXCEPT ![s].state = "rejected", ![s].code = 4003]
    /\ UNCHANGED <<participants, nextMsgId, conns, nextConnId, notifs,
                   group, inbox, frames, creates, retr, nRecv, likes, follows, handlers, room_key, roomReqs, pushes, layer, nsubs>>

\* mark_connection_as_disconnected: the row of (user, room) with the latest
\* connected_at gets disconnected_at = now.  A missing room or an anonymous
\* user makes the query raise: nothing is written.
LatestConn(u, r) == SetMax(ConnsOf(u, r))
CanMarkDisconnected(u, r) == u # Anonymous /\ RoomExists(r) /\ ConnsOf(u, r) # {}

\* WebSocketConnection.mark_disconnected
MarkDisconnectedNoop(c) == conns
MarkDisconnected(c) == [conns EXCEPT ![c].disconnected_at = @ + 1]

\* disconnect: runs after a client close and after the consumer's own close()
Disconnect(s) ==
    /\ sess[s].state \in {"open", "rejected"}
    /\ group' = group \ {s}
    /\ IF CanMarkDisconnected(sess[s].user, sess[s].room)
       THEN conns' = MarkDisconnected(LatestConn(sess[s].user, sess[s].room))
       ELSE conns' = conns
    /\ sess' = [sess EXCEPT ![s].state = "closed",
                            ![s].code = IF sess[s].state = "open" THEN 1000 ELSE sess[s].code]
    /\ inbox' = [inbox EXCEPT ![s] = <<>>]
    /\ UNCHANGED <<participants, messages, nextMsgId, nextConnId, notifs, frames,
                   creates, retr, nRecv, likes, follows, handlers, room_key, roomReqs, pushes, layer, nsubs>>

\* mark_message_as_read: get by id alone, save only when not yet read
AckReadNever(msgs, mid) == msgs
AckRead(msgs, mid) ==
    IF mid \in DOMAIN msgs /\ ~msgs[mid].is_read
    THEN [msgs EXCEPT ![mid].is_read = TRUE] ELSE msgs

\* receive of a frame {message?, message_id?}.  With a message: group_send
\* of the raw payload, then mark_messages_as_read, which raises for a
\* deleted room and ends the consumer.  With a message_id:
\* mark_message_as_read, then group_send of message_read.
Receive(s, hasMessage, mid) ==
    /\ sess[s].state = "open"
    /\ nRecv < MaxRecv
    /\ hasMessage \/ mid # 0
    /\ nRecv' = nRecv + 1
    /\ LET r == sess[s].room
           down == layer = "down"
           crash == down \/ (hasMessage /\ ~RoomExists(r))
           q1 == IF hasMessage /\ ~down THEN GroupSend(inbox, r, RawChatEvent(mid)) ELSE inbox
           m1 == IF hasMessage /\ ~crash THEN MarkRead(sess[s].user, r) ELSE messages
       IN IF crash
          THEN /\ sess' = [sess EXCEPT ![s].state = "crashed"]
               /\ inbox' = [q1 EXCEPT ![s] = <<>>]
               /\ messages' = IF down /\ ~hasMessage THEN AckRead(messages, mid) ELSE messages
          ELSE /\ sess' = sess
               /\ messages' = IF mid # 0 THEN AckRead(m1, mid) ELSE m1
               /\ inbox' = IF mid # 0 THEN GroupSend(q1, r, ReadEvent(mid)) ELSE q1
    /\ UNCHANGED <<participants, nextMsgId, conns, nextConnId, notifs, group,
                   frames, creates, retr, likes, follows, handlers, room_key, roomReqs, pushes, layer, nsubs>>

\* chat_message: drops the sender's own message
IsOwnMessageNever(ev, u) == FALSE
IsOwnMessage(ev, u) == ev.sender = u

\* the consumer takes the next event from its channel: chat_message or
\* message_read.  A chat_message whose payload is the raw client string
\* (sent by receive) has no "sender" key: the handler raises and the
\* consumer ends without running disconnect.
HandleEvent(s) ==
    /\ sess[s].state = "open"
    /\ inbox[s] # <<>>
    /\ LET ev == Head(inbox[s]) IN
       IF ev.type = "chat_message" /\ ev.sender = "raw"
       THEN /\ sess' = [sess EXCEPT ![s].state = "crashed"]
            /\ inbox' = [inbox EXCEPT ![s] = <<>>]
            /\ frames' = frames
       ELSE /\ sess' = sess
            /\ inbox' = [inbox EXCEPT ![s] = Tail(inbox[s])]
            /\ frames' =
                 IF ev.type = "message_read"
                 THEN [frames EXCEPT ![s] = frames[s] \cup {ReadFrame(ev.mid)}]
                 ELSE IF IsOwnMessage(ev, sess[s].user) THEN frames
                 ELSE [frames EXCEPT ![s] = frames[s] \cup {ReceivedFrame(ev.mid)}]
    /\ UNCHANGED <<participants, messages, nextMsgId, conns, nextConnId,
                   notifs, group, creates, retr, nRecv, likes, follows, handlers, room_key, roomReqs, pushes, layer, nsubs>>

----------------------------------------------------------------------------
(* ChatRoomViewSet.create and ChatRoomSerializer.create *)

\* the "participants" list of the request body, before the view appends the
\* requester's username
RequestLists == {<<>>, <<"u1">>, <<"u2">>, <<"u1", "u2">>}

\* the id (a fresh UUID) of the room that the e-th request creates
FreshRoomIds == <<"r2", "r3", "r4", "r5", "r6">>
NewRoomId(e) == FreshRoomIds[e]
AllRoomIds == Rooms \cup {FreshRoomIds[i] : i \in DOMAIN FreshRoomIds}
NoRoom == "none"

\* room_key: the participant ids, sorted
RoomKeyOf(list) ==
    LET a == Pk(list[1])
        b == Pk(list[2])
    IN IF a <= b THEN <<a, b>> ELSE <<b, a>>

\* ChatRoom.room_key is unique: an INSERT of a taken key raises IntegrityError
KeyTakenNever(key) == FALSE
KeyTaken(key) == \E r \in DOMAIN room_key : room_key[r] = key

\* the view appends the requester; the serializer rejects a list whose
\* length is not 2, builds the key and looks the room up
RoomCreateLookup(u, plist) ==
    /\ Len(roomReqs) < MaxRoomReqs
    /\ LET list == Append(plist, u) IN
       IF Len(list) # 2
       THEN roomReqs' = Append(roomReqs, [user |-> u, list |-> list, key |-> <<>>,
                                          pc |-> "invalid", found |-> NoRoom])
       ELSE LET key == RoomKeyOf(list)
                existing == {r \in DOMAIN room_key : room_key[r] = key}
            IN roomReqs' = Append(roomReqs,
                   [user |-> u, list |-> list, key |-> key, pc |-> "looked",
                    found |-> IF existing = {} THEN NoRoom ELSE CHOOSE r \in existing : TRUE])
    /\ UNCHANGED <<participants, messages, nextMsgId, conns, nextConnId, notifs, sess,
                   group, inbox, frames, creates, retr, nRecv, likes, follows, handlers,
                   room_key, pushes, layer, nsubs>>

\* all(participant in existing_room.participants.all() for participant in participants)
AlreadyTogetherNever(listed, r) == FALSE
AlreadyTogether(listed, r) == listed \subseteq participants[r]

\* the rest of the serializer's create.  A room that was found: rejected when
\* every listed user participates, else participants.add (which fails on
\* the foreign key when the room was deleted since the lookup).  No room
\* found: ChatRoom.objects.create and participants.set.
RoomCreateApply(e) ==
    /\ e \in DOMAIN roomReqs
    /\ roomReqs[e].pc = "looked"
    /\ LET q == roomReqs[e]
           listed == {q.list[i] : i \in DOMAIN q.list}
       IN IF q.found # NoRoom
          THEN IF ~RoomExists(q.found)
               THEN /\ roomReqs' = [roomReqs EXCEPT ![e].pc = "error"]
                    /\ UNCHANGED <<participants, room_key>>
               ELSE IF AlreadyTogether(listed, q.found)
               THEN /\ roomReqs' = [roomReqs EXCEPT ![e].pc = "exists"]
                    /\ UNCHANGED <<participants, room_key>>
               ELSE /\ participants' = [participants EXCEPT ![q.found] = @ \cup listed]
                    /\ roomReqs' = [roomReqs EXCEPT ![e].pc = "joined"]
                    /\ UNCHANGED room_key
          ELSE IF KeyTaken(q.key)
               THEN /\ roomReqs' = [roomReqs EXCEPT ![e].pc = "error"]
                    /\ UNCHANGED <<participants, room_key>>
               ELSE /\ participants' = (NewRoomId(e) :> listed) @@ participants
                    /\ room_key' = (NewRoomId(e) :> q.key) @@ room_key
                    /\ roomReqs' = [roomReqs EXCEPT ![e].pc = "created"]
    /\ UNCHANGED <<messages, nextMsgId, conns, nextConnId, notifs, sess, group, inbox,
                   frames, creates, retr, nRecv, likes, follows, handlers, pushes, layer, nsubs>>

----------------------------------------------------------------------------
(* Likes, comments, follows and their notification receivers *)

\* Post.user
PostOwner(p) == "u2"

NoRel == "null"

Handler(type, recipient, sender, rel) ==
    [type |-> type, recipient |-> recipient, sender |-> sender, rel |-> rel, pc |-> "check"]

HandlerRow(h) == NotifRow(h.recipient, h.sender, h.type, h.rel)

\* LikeView.post: get_or_create, and delete when the like existed.  A created
\* Like raises post_save and starts create_notification_for_new_like.
LikePost(u, p) ==
    /\ IF [user |-> u, post |-> p] \in likes
       THEN /\ likes' = likes \ {[user |-> u, post |-> p]}
            /\ handlers' = handlers
       ELSE /\ Len(handlers) < MaxEvents
            /\ likes' = likes \cup {[user |-> u, post |-> p]}
            /\ handlers' = Append(handlers, Handler("like", PostOwner(p), u, p))
    /\ UNCHANGED <<chatVars, notifs, follows, pushes>>

\* CommentViewSet.create: a new Comment raises post_save and starts
\* create_notification_for_new_comment, whose key holds the post id
CommentPost(u, p) ==
    /\ Len(handlers) < MaxEvents
    /\ handlers' = Append(handlers, Handler("comment", PostOwner(p), u, p))
    /\ UNCHANGED <<chatVars, notifs, likes, follows, pushes>>

\* FollowView.create: rejects following oneself and an existing Follow; a
\* created Follow starts create_notification_for_new_follower, whose key
\* has no related object
FollowUser(u, v) ==
    /\ u # v
    /\ <<u, v>> \notin follows
    /\ Len(handlers) < MaxEvents
    /\ follows' = follows \cup {<<u, v>>}
    /\ handlers' = Append(handlers, Handler("follow", v, u, NoRel))
    /\ UNCHANGED <<chatVars, notifs, likes, pushes>>

\* UnfollowView.destroy
UnfollowUser(u, v) ==
    /\ <<u, v>> \in follows
    /\ follows' = follows \ {<<u, v>>}
    /\ UNCHANGED <<chatVars, notifs, likes, handlers, pushes>>

\* the receiver's Notification.objects.filter(...).exists()
HandlerCheck(e) ==
    /\ handlers[e].pc = "check"
    /\ handlers' = [handlers EXCEPT ![e].pc =
                       IF NotifExists(HandlerRow(handlers[e])) THEN "done" ELSE "create"]
    /\ UNCHANGED <<chatVars, notifs, likes, follows, pushes>>

\* the receiver's Notification.objects.create(...), which raises post_save
\* of Notification: send_notification_via_websocket
HandlerCreate(e) ==
    /\ handlers[e].pc = "create"
    /\ notifs' = notifs (+) SetToBag({HandlerRow(handlers[e])})
    /\ pushes' = SendNotifications(pushes, SetToBag({HandlerRow(handlers[e])}))
    /\ handlers' = [handlers EXCEPT ![e].pc = "done"]
    /\ UNCHANGED <<chatVars, likes, follows>>

-----------------------------------------------------------------------------
(* Channel layer backend and NotificationConsumer *)

\* the Redis backend of CHANNEL_LAYERS becomes unreachable: group_send raises
LayerDown ==
    /\ layer = "up"
    /\ layer' = "down"
    /\ UNCHANGED <<participants, messages, nextMsgId, conns, nextConnId, notifs, sess,
                   group, inbox, frames, creates, retr, nRecv, likes, follows, handlers,
                   room_key, roomReqs, pushes, nsubs>>

\* the backend is reachable again
LayerUp ==
    /\ layer = "down"
    /\ layer' = "up"
    /\ UNCHANGED <<participants, messages, nextMsgId, conns, nextConnId, notifs, sess,
                   group, inbox, frames, creates, retr, nRecv, likes, follows, handlers,
                   room_key, roomReqs, pushes, nsubs>>

\* NotificationConsumer.connect of a connection whose scope["user"] is u, on
\* the URL of user target: group_add to user_<target>_notifications, then
\* accept; scope["user"] is not read
NotifConnect(u, target) ==
    /\ layer = "up"
    /\ [user |-> u, group |-> target] \notin nsubs
    /\ nsubs' = nsubs \cup {[user |-> u, group |-> target]}
    /\ UNCHANGED <<participants, messages, nextMsgId, conns, nextConnId, notifs, sess,
                   group, inbox, frames, creates, retr, nRecv, likes, follows, handlers,
                   room_key, roomReqs, pushes, layer>>

\* NotificationConsumer.disconnect: group_discard
NotifDisconnect(u, target) ==
    /\ layer = "up"
    /\ [user |-> u, group |-> target] \in nsubs
    /\ nsubs' = nsubs \ {[user |-> u, group |-> target]}
    /\ UNCHANGED <<participants, messages, nextMsgId, conns, nextConnId, notifs, sess,
                   group, inbox, frames, creates, retr, nRecv, likes, follows, handlers,
                   room_key, roomReqs, pushes, layer>>

InFlight == {e \in DOMAIN handlers : handlers[e].pc # "done"}

----------------------------------------------------------------------------
(* The chat specification: one room with both users as participants *)

NewSession == [state |-> "new", user |-> NoUser, room |-> "r1", code |-> 0]
NoCreate == [pc |-> "none", room |-> "r1", sender |-> NoUser, is_read |-> FALSE]

Init ==
    /\ participants = [r \in {"r1"} |-> Users]
    /\ messages = <<>>
    /\ nextMsgId = 1
    /\ conns = <<>>
    /\ nextConnId = 1
    /\ notifs = EmptyBag
    /\ sess = [s \in Sessions |-> NewSession]
    /\ group = {}
    /\ inbox = [s \in Sessions |-> <<>>]
    /\ frames = [s \in Sessions |-> {}]
    /\ creates = [m \in 1..MaxMsgs |-> NoCreate]
    /\ retr = [u \in Users |-> {}]
    /\ nRecv = 0
    /\ likes = {}
    /\ follows = {}
    /\ handlers = <<>>
    /\ room_key = [r \in {"r1"} |-> <<1, 2>>]
    /\ roomReqs = <<>>
    /\ pushes = EmptyBag
    /\ layer = "up"
    /\ nsubs = {}

\* Message creation against the connection registry and the session
\* life cycle.
Next ==
    \/ \E u \in Users, r \in Rooms : CreateInsert(u, r)
    \/ \E m \in 1..MaxMsgs : CreateCheck(m)
    \/ \E m \in 1..MaxMsgs : CreateSave(m)
    \/ \E m \in 1..MaxMsgs : CreateBroadcast(m)
    \/ \E u \in Users, r \in Rooms : Leave(u, r)
    \/ \E u \in Users, r \in Rooms, closed \in BOOLEAN : AdminAddConnection(u, r, closed)
    \/ \E s \in RegSessions, u \in Users \cup {Anonymous}, r \in Rooms : ConnectAuth(s, u, r)
    \/ \E s \in RegSessions : ConnectMark(s)
    \/ \E s \in RegSessions : Disconnect(s)

Spec == Init /\ [][Next]_vars

\* The writers of Message.is_read: creation, room entry over HTTP and over
\* the WebSocket, and the inbound frames of an open session.
NextRead ==
    \/ \E u \in Users, r \in Rooms : CreateInsert(u, r)
    \/ \E m \in 1..MaxMsgs : CreateCheck(m)
    \/ \E m \in 1..MaxMsgs : CreateSave(m)
    \/ \E m \in 1..MaxMsgs : CreateBroadcast(m)
    \/ \E u \in Users, r \in Rooms : RetrieveStart(u, r)
    \/ \E u \in Users : RetrieveMark(u)
    \/ \E u \in Users, r \in Rooms : Leave(u, r)
    \/ \E s \in RegSessions, u \in Users \cup {Anonymous}, r \in Rooms : ConnectAuth(s, u, r)
    \/ \E s \in RegSessions : ConnectMark(s)
    \/ \E s \in RegSessions : Disconnect(s)
    \/ \E s \in RegSessions, hasMessage \in BOOLEAN, mid \in 0..MaxMsgs : Receive(s, hasMessage, mid)

SpecRead == Init /\ [][NextRead]_vars

\* The fanout of events to the sessions of the room group: the broadcasts of
\* MessageViewSet.create and of the chat frames clients send (the read
\* acknowledgements are in SpecRead).
NextFanout ==
    \/ \E u \in Users, r \in Rooms : CreateInsert(u, r)
    \/ \E m \in 1..MaxMsgs : CreateCheck(m)
    \/ \E m \in 1..MaxMsgs : CreateSave(m)
    \/ \E m \in 1..MaxMsgs : CreateBroadcast(m)
    \/ \E s \in Sessions, u \in Users \cup {Anonymous}, r \in Rooms : ConnectAuth(s, u, r)
    \/ \E s \in Sessions : ConnectMark(s)
    \/ \E s \in Sessions : Disconnect(s)
    \/ \E s \in Sessions : Receive(s, TRUE, 0)
    \/ \E s \in Sessions : HandleEvent(s)

SpecFanout == Init /\ [][NextFanout]_vars

\* Likes, comments and follows by concurrent requests.
NextSocial ==
    \/ \E u \in Users, p \in Posts : LikePost(u, p)
    \/ \E u \in Users, p \in Posts : CommentPost(u, p)
    \/ \E u \in Users, v \in Users : FollowUser(u, v)
    \/ \E u \in Users, v \in Users : UnfollowUser(u, v)
    \/ \E e \in 1..MaxEvents : e \in DOMAIN handlers /\ HandlerCheck(e)
    \/ \E e \in 1..MaxEvents : e \in DOMAIN handlers /\ HandlerCreate(e)

SpecSocial == Init /\ [][NextSocial]_vars

\* The same requests arriving one after the other: a request starts only
\* when the receiver of the previous one has returned.
NextSocialSeq ==
    \/ \E u \in Users, p \in Posts : InFlight = {} /\ LikePost(u, p)
    \/ \E u \in Users, p \in Posts : InFlight = {} /\ CommentPost(u, p)
    \/ \E u \in Users, v \in Users : InFlight = {} /\ FollowUser(u, v)
    \/ \E u \in Users, v \in Users : InFlight = {} /\ UnfollowUser(u, v)
    \/ \E e \in 1..MaxEvents : e \in DOMAIN handlers /\ HandlerCheck(e)
    \/ \E e \in 1..MaxEvents : e \in DOMAIN handlers /\ HandlerCreate(e)

SpecSocialSeq == Init /\ [][NextSocialSeq]_vars

\* Message and like requests while the channel layer backend goes down and
\* comes back.
NextDelivery ==
    \/ \E u \in Users, r \in Rooms : CreateInsert(u, r)
    \/ \E m \in 1..MaxMsgs : m \in DOMAIN creates /\ CreateCheck(m)
    \/ \E m \in 1..MaxMsgs : m \in DOMAIN creates /\ CreateSave(m)
    \/ \E m \in 1..MaxMsgs : m \in DOMAIN creates /\ CreateBroadcast(m)
    \/ \E u \in Users, p \in Posts : InFlight = {} /\ LikePost(u, p)
    \/ \E e \in 1..MaxEvents : e \in DOMAIN handlers /\ HandlerCheck(e)
    \/ \E e \in 1..MaxEvents : e \in DOMAIN handlers /\ HandlerCreate(e)
    \/ LayerDown
    \/ LayerUp

SpecDelivery == Init /\ [][NextDelivery]_vars

\* Notification connections opening and closing.
NextNotify ==
    \/ \E u \in Users \cup {Anonymous}, target \in Users : NotifConnect(u, target)
    \/ \E u \in Users \cup {Anonymous}, target \in Users : NotifDisconnect(u, target)
    \/ LayerDown
    \/ LayerUp

SpecNotify == Init /\ [][NextNotify]_vars

\* Room creation and leaving.
NextRooms ==
    \/ \E u \in Users, plist \in RequestLists : RoomCreateLookup(u, plist)
    \/ \E e \in 1..MaxRoomReqs : RoomCreateApply(e)
    \/ \E u \in Users, r \in AllRoomIds : Leave(u, r)

SpecRooms == Init /\ [][NextRooms]_vars

\* Room entry against stored messages: u1 shares room r1 with u2 and room
\* r2 with a third user; r1 holds two unread messages of u2 and one of u1,
\* r2 one unread message of the third user.
ThirdUser == "u3"
EntryRooms == {"r1", "r2"}
StoredMessages ==
    << [room |-> "r1", sender |-> "u2", is_read |-> FALSE],
       [room |-> "r1", sender |-> "u2", is_read |-> FALSE],
       [room |-> "r1", sender |-> "u1", is_read |-> FALSE],
       [room |-> "r2", sender |-> ThirdUser, is_read |-> FALSE] >>

InitEntry ==
    /\ participants = [r \in EntryRooms |-> IF r = "r1" THEN Users ELSE {"u1", ThirdUser}]
    /\ room_key = [r \in EntryRooms |-> IF r = "r1" THEN <<1, 2>> ELSE <<1, 3>>]
    /\ messages = StoredMessages
    /\ nextMsgId = Len(StoredMessages) + 1
    /\ conns = <<>>
    /\ nextConnId = 1
    /\ notifs = EmptyBag
    /\ sess = [s \in Sessions |-> NewSession]
    /\ group = {}
    /\ inbox = [s \in Sessions |-> <<>>]
    /\ frames = [s \in Sessions |-> {}]
    /\ creates = [m \in 1..MaxMsgs |-> NoCreate]
    /\ retr = [u \in Users |-> {}]
    /\ nRecv = 0
    /\ likes = {}
    /\ follows = {}
    /\ handlers = <<>>
    /\ roomReqs = <<>>
    /\ pushes = EmptyBag
    /\ layer = "up"
    /\ nsubs = {}

NextEntry ==
    \/ \E u \in Users, r \in EntryRooms : RetrieveStart(u, r)
    \/ \E u \in Users : RetrieveMark(u)
    \/ \E s \in Sessions, u \in Users \cup {Anonymous}, r \in EntryRooms : ConnectAuth(s, u, r)
    \/ \E s \in Sessions : ConnectMark(s)
    \/ \E s \in Sessions : Disconnect(s)

SpecEntry == InitEntry /\ [][NextEntry]_vars

\* Two concurrent message requests of one room.  The state after both have
\* run serializer.save(): message 1 of u1 and message 2 of u2 are stored
\* in that order, each with its notification pushed twice, and both
\* requests are about to continue.
OrderMessages ==
    << [room |-> "r1", sender |-> "u1", is_read |-> FALSE],
       [room |-> "r1", sender |-> "u2", is_read |-> FALSE] >>
OrderNotifs ==
    SetToBag({NotifRow("u2", "u1", "message", 1), NotifRow("u1", "u2", "message", 2)})
OrderNotifsPushed ==
    LET once == SetToBag({PushEvent(row) : row \in BagToSet(OrderNotifs)})
    IN once (+) once

InitOrder ==
    /\ participants = [r \in {"r1"} |-> Users]
    /\ room_key = [r \in {"r1"} |-> <<1, 2>>]
    /\ messages = OrderMessages
    /\ nextMsgId = Len(OrderMessages) + 1
    /\ conns = <<>>
    /\ nextConnId = 1
    /\ notifs = OrderNotifs
    /\ sess = [s \in Sessions |-> NewSession]
    /\ group = {}
    /\ inbox = [s \in Sessions |-> <<>>]
    /\ frames = [s \in Sessions |-> {}]
    /\ creates = [m \in DOMAIN OrderMessages |->
                     [pc |-> "inserted", room |-> OrderMessages[m].room,
                      sender |-> OrderMessages[m].sender, is_read |-> FALSE]]
    /\ retr = [u \in Users |-> {}]
    /\ nRecv = 0
    /\ likes = {}
    /\ follows = {}
    /\ handlers = <<>>
    /\ roomReqs = <<>>
    /\ pushes = OrderNotifsPushed
    /\ layer = "up"
    /\ nsubs = {}

NextOrder ==
    \/ \E m \in DOMAIN OrderMessages : CreateCheck(m)
    \/ \E m \in DOMAIN OrderMessages : CreateSave(m)
    \/ \E m \in DOMAIN OrderMessages : CreateBroadcast(m)
    \/ \E s \in RegSessions, u \in Users \cup {Anonymous}, r \in Rooms : ConnectAuth(s, u, r)
    \/ \E s \in RegSessions : ConnectMark(s)
    \/ \E s \in RegSessions : Disconnect(s)
    \/ \E s \in RegSessions : HandleEvent(s)

SpecOrder == InitOrder /\ [][NextOrder]_vars

\* Room requests and leaves for a room that holds messages: message 1 of u1
\* and message 2 of u2 are stored in r1, and no request is running.
InitRejoin ==
    /\ participants = [r \in {"r1"} |-> Users]
    /\ room_key = [r \in {"r1"} |-> <<1, 2>>]
    /\ messages = OrderMessages
    /\ nextMsgId = Len(OrderMessages) + 1
    /\ conns = <<>>
    /\ nextConnId = 1
    /\ notifs = OrderNotifs
    /\ sess = [s \in Sessions |-> NewSession]
    /\ group = {}
    /\ inbox = [s \in Sessions |-> <<>>]
    /\ frames = [s \in Sessions |-> {}]
    /\ creates = [m \in 1..MaxMsgs |-> NoCreate]
    /\ retr = [u \in Users |-> {}]
    /\ nRecv = 0
    /\ likes = {}
    /\ follows = {}
    /\ handlers = <<>>
    /\ roomReqs = <<>>
    /\ pushes = OrderNotifsPushed
    /\ layer = "up"
    /\ nsubs = {}

SpecRejoin == InitRejoin /\ [][NextRooms]_vars

----------------------------------------------------------------------------
(* Properties *)

ActiveConns(u, r) ==
    {c \in DOMAIN conns : conns[c].user = u /\ conns[c].room = r
                           /\ conns[c].disconnected_at = 0}
Others(r, u) == IF r \in DOMAIN participants THEN participants[r] \ {u} ELSE {}
Inserted(m) == m \notin DOMAIN messages /\ m \in DOMAIN messages'

\* C1: a stored is_read that is true is never stored false afterwards, for
\* every message and every interleaving of creation, acknowledgement and
\* room entry.
C1_ReadMonotonic ==
    [][\A m \in DOMAIN messages :
          (messages[m].is_read /\ m \in DOMAIN messages') => messages'[m].is_read]_vars

\* C2: the is_read that MessageViewSet.create stores is the result of its
\* liveness query, and that result is true exactly when the other
\* participant has a connection row of the room with disconnected_at null.
C2_CreateStoresLiveness ==
    [][\A m \in 1..MaxMsgs :
          /\ (creates[m].pc = "inserted" /\ creates'[m].pc = "checked") =>
                (creates'[m].is_read <=>
                    \E o \in Others(creates[m].room, creates[m].sender) :
                        ActiveConns(o, creates[m].room) # {})
          /\ (creates[m].pc = "checked" /\ creates'[m].pc = "saved") =>
                (messages'[m].is_read <=> creates[m].is_read)]_vars

\* a create has stored true while the other participant has an active row
C2_Witness ==
    \E m \in DOMAIN messages :
        /\ creates[m].pc = "saved"
        /\ messages[m].is_read
        /\ \E o \in Others(messages[m].room, messages[m].sender) :
              ActiveConns(o, messages[m].room) # {}

\* C3: a session that is Subscribed has an active connection row for its
\* (user, room).
C3_SubscribedIsRegistered ==
    \A s \in Sessions :
        sess[s].state = "open" => ActiveConns(sess[s].user, sess[s].room) # {}

\* C4: no session is sent a "received" frame for a message its own user
\* authored.
C4_NoSelfEcho ==
    \A s \in Sessions : \A f \in frames[s] :
        f.status = "received" => creates[f.mid].sender # sess[s].user

\* the broadcast of a message reached another session while a session of
\* the author is subscribed and has consumed its events
C4_Witness ==
    \E m \in 1..MaxMsgs, s1 \in Sessions, s2 \in Sessions :
        /\ creates[m].pc = "done"
        /\ sess[s1].state = "open" /\ s1 \in group /\ inbox[s1] = <<>>
        /\ sess[s1].user = creates[m].sender
        /\ ReceivedFrame(m) \in frames[s2]

LikesDone(u, p) ==
    {e \in DOMAIN handlers : /\ handlers[e].type = "like" /\ handlers[e].pc = "done"
                             /\ handlers[e].sender = u /\ handlers[e].rel = p}

\* C5: with requests arriving one after the other, once the receiver of a
\* like by u on p has returned there is exactly one like notification for
\* (owner of p, u, p), however often u has liked p again.
C5_OneRowPerRepeatedLike ==
    \A u \in Users, p \in Posts :
        (LikesDone(u, p) # {} /\ InFlight = {}) =>
            CopiesIn(NotifRow(PostOwner(p), u, "like", p), notifs) = 1

\* u has liked p, taken the like back and liked p again
C5_Witness ==
    \E u \in Users, p \in Posts :
        /\ Cardinality(LikesDone(u, p)) >= 2
        /\ CopiesIn(NotifRow(PostOwner(p), u, "like", p), notifs) = 1

\* C6: no two Notification rows share (recipient, sender, type,
\* related_object_id), whatever the interleaving of the receivers.
C6_NoDuplicateNotifs ==
    \A row \in BagToSet(notifs) : CopiesIn(row, notifs) = 1

\* C7: a session that terminated normally has had its close recorded on a
\* connection row of its (user, room), and once no session of (user, room)
\* is open no row of (user, room) has disconnected_at null.
C7_CleanupOnDisconnect ==
    \A s \in Sessions :
        (sess[s].state = "closed" /\ sess[s].code = 1000 /\ RoomExists(sess[s].room)) =>
            /\ \E c \in ConnsOf(sess[s].user, sess[s].room) : conns[c].disconnected_at # 0
            /\ (\A t \in Sessions :
                    (sess[t].user = sess[s].user /\ sess[t].room = sess[s].room)
                        => sess[t].state \notin {"accepted", "open"})
               => ActiveConns(sess[s].user, sess[s].room) = {}

\* C8: at most one connection row per (user, room) has disconnected_at null.
C8_AtMostOneActive ==
    \A u \in Users, r \in Rooms : Cardinality(ActiveConns(u, r)) <= 1

\* C9: a message created while its recipient has an active connection row
\* in the room creates no message notification for that recipient.
C9_NoNotificationWhenLive ==
    [][\A m \in 1..MaxMsgs :
          Inserted(m) =>
             \A o \in Others(messages'[m].room, messages'[m].sender) :
                 ActiveConns(o, messages'[m].room) # {} =>
                    CopiesIn(NotifRow(o, messages'[m].sender, "message", m), notifs') = 0]_vars

\* C10: creating a message while the other participant has no active
\* connection row creates exactly one message notification, for the other
\* participant, and none for the sender; no later step creates another one;
\* a WebSocket entry leaves every message of the others in the room read, an
\* HTTP entry schedules every unread message of the others and marks each
\* one it reaches, and a message whose creation has completed never goes
\* back to unread.
C10_NotifyOnceThenRead ==
    [][/\ \A m \in 1..MaxMsgs :
             Inserted(m) =>
                LET r == messages'[m].room
                    u1 == messages'[m].sender
                IN /\ \A u2 \in Others(r, u1) :
                        ActiveConns(u2, r) = {} =>
                            CopiesIn(NotifRow(u2, u1, "message", m), notifs') = 1
                   /\ \A x \in Users :
                        CopiesIn(NotifRow(u1, x, "message", m), notifs') = 0
       /\ (DOMAIN messages' \subseteq DOMAIN messages) => notifs' = notifs
       /\ \A s \in Sessions :
             (sess[s].state = "accepted" /\ sess'[s].state = "open") =>
                \A m \in DOMAIN messages' :
                    (messages'[m].room = sess[s].room /\ messages'[m].sender # sess[s].user)
                        => messages'[m].is_read
       /\ \A u \in Users :
             /\ (retr[u] = {} /\ retr'[u] # {}) =>
                   \E r \in Rooms :
                       retr'[u] = {m \in DOMAIN messages :
                                     /\ messages[m].room = r /\ ~messages[m].is_read
                                     /\ messages[m].sender # u}
             /\ \A m \in retr[u] \ retr'[u] :
                   (retr'[u] # {} \/ retr[u] = {m}) /\ m \in DOMAIN messages'
                       => messages'[m].is_read
       /\ \A m \in DOMAIN messages \cap DOMAIN messages' :
             (creates[m].pc \in {"saved", "done"} /\ messages[m].is_read)
                 => messages'[m].is_read]_vars

\* a message stored unread by its creation, notified once, and read after
\* the other participant entered the room
C10_Witness ==
    \E m \in DOMAIN messages, s \in Sessions :
        /\ creates[m].pc = "done" /\ ~creates[m].is_read
        /\ messages[m].is_read
        /\ sess[s].state = "open" /\ sess[s].user \in Others(messages[m].room, messages[m].sender)
        /\ CopiesIn(NotifRow(sess[s].user, messages[m].sender, "message", m), notifs) = 1
        /\ BagCardinality(notifs) = 1

\* C11: a room entry by u, over the WebSocket or over HTTP, leaves every
\* message of the room whose sender is not u read, and changes no message
\* sent by u and no message of another room.
C11_EntryMarksOthersOnly ==
    [][/\ \A s \in Sessions :
             (sess[s].state = "accepted" /\ sess'[s].state = "open") =>
                \A m \in DOMAIN messages \cap DOMAIN messages' :
                    IF messages[m].room = sess[s].room /\ messages[m].sender # sess[s].user
                    THEN messages'[m].is_read
                    ELSE messages'[m] = messages[m]
       /\ \A u \in Users :
             retr'[u] # retr[u] =>
                /\ \A m \in DOMAIN messages \cap DOMAIN messages' :
                      messages'[m] # messages[m] =>
                         /\ m \in retr[u] /\ messages[m].sender # u
                         /\ messages'[m] = [messages[m] EXCEPT !.is_read = TRUE]
                /\ (retr[u] # {} /\ retr'[u] = {}) =>
                      \A m \in retr[u] : \A k \in DOMAIN messages' :
                          (m \in DOMAIN messages
                             /\ messages'[k].room = messages[m].room
                             /\ messages'[k].sender # u) => messages'[k].is_read]_vars

\* u has entered a room over HTTP: the messages of the others in it are
\* read, a message of u in it and a message of another room are still unread
C11_Witness ==
    \E u \in Users, r \in EntryRooms :
        /\ \A s \in Sessions : sess[s].state = "new"
        /\ retr[u] = {}
        /\ \E m \in DOMAIN messages :
              messages[m].room = r /\ messages[m].sender # u /\ messages[m].is_read
        /\ \A m \in DOMAIN messages :
              (messages[m].room = r /\ messages[m].sender # u) => messages[m].is_read
        /\ \E m \in DOMAIN messages :
              messages[m].room = r /\ messages[m].sender = u /\ ~messages[m].is_read
        /\ \E m \in DOMAIN messages :
              messages[m].room # r /\ messages[m].sender # u /\ ~messages[m].is_read

\* C12: the mark-as-read of a room entry is one atomic update: a step that
\* marks one message an entry has scheduled marks every message it has
\* scheduled, so no state has some of them marked and others not.
C12_EntryAtomic ==
    [][\A u \in Users : \A m \in retr[u] :
          (m \in DOMAIN messages' /\ ~messages[m].is_read /\ messages'[m].is_read) =>
              \A k \in retr[u] : k \in DOMAIN messages' => messages'[k].is_read]_vars

\* C13: the connect of an anonymous user ends closed with 4001, the connect
\* of an authenticated user who is no participant of the room, or whose room
\* does not exist, ends closed with 4002; such a connection is never accepted
\* and never a member of the room group.
C13_RejectNeverAccepts ==
    [][\A s \in Sessions :
          /\ (sess[s].state = "new" /\ sess'[s].state # "new") =>
                /\ sess'[s].user = Anonymous =>
                      (sess'[s].state = "rejected" /\ sess'[s].code = 4001)
                /\ (/\ sess'[s].user # Anonymous
                    /\ ~(/\ sess'[s].room \in DOMAIN participants
                         /\ sess'[s].user \in participants[sess'[s].room])) =>
                      (sess'[s].state = "rejected" /\ sess'[s].code = 4002)
                /\ sess'[s].state = "rejected" => (s \notin group' /\ frames'[s] = {})
          /\ sess[s].code \in {4001, 4002} =>
                /\ sess'[s].state \in {"rejected", "closed"}
                /\ sess'[s].code = sess[s].code
                /\ s \notin group' /\ frames'[s] = {}]_vars

\* a user who has left the room, which still exists, was closed with 4002
C13_Witness ==
    \E s \in Sessions :
        /\ sess[s].code = 4002 /\ sess[s].state = "closed"
        /\ RoomExists(sess[s].room)
        /\ sess[s].user \notin participants[sess[s].room]

\* C14: no step of a rejected connection, its connect or its disconnect,
\* creates or changes a connection row, a message or a group membership.
C14_RejectedRecordsNothing ==
    [][\A s \in Sessions :
          (sess'[s] # sess[s] /\ sess'[s].code \in {4001, 4002}) =>
              /\ conns' = conns /\ nextConnId' = nextConnId
              /\ messages' = messages
              /\ group' = group]_vars

C16_AckSetsReadAndBroadcasts ==
    [][\A s \in Sessions, mid \in 1..MaxMsgs :
          (/\ nRecv' = nRecv + 1
           /\ sess[s].state = "open"
           /\ inbox'[s] = Append(inbox[s], ReadEvent(mid))) =>
              /\ mid \in DOMAIN messages => messages'[mid].is_read
              /\ (mid \in DOMAIN messages /\ messages[mid].is_read) => messages' = messages
              /\ \A k \in DOMAIN messages \ {mid} : messages'[k] = messages[k]
              /\ DOMAIN messages' = DOMAIN messages
              /\ \A t \in Sessions :
                    (t \in group /\ sess[t].room = sess[s].room /\ sess[t].state \in LiveStates)
                        => inbox'[t] = Append(inbox[t], ReadEvent(mid))
              /\ AckRead(AckRead(messages, mid), mid) = AckRead(messages, mid)
              /\ AckRead(messages', mid) = messages']_vars

\* the recipient of a message that its creation stored unread has
\* acknowledged it: the message is read and the message_read event is queued
C16_Witness ==
    \E s \in Sessions, mid \in DOMAIN messages :
        /\ nRecv = 1
        /\ sess[s].state = "open"
        /\ inbox[s] # <<>> /\ inbox[s][Len(inbox[s])] = ReadEvent(mid)
        /\ creates[mid].pc = "done" /\ ~creates[mid].is_read
        /\ messages[mid].is_read
        /\ messages[mid].sender # sess[s].user

C17_OneRoomPerPair ==
    /\ \A a \in Users, b \in Users : RoomKeyOf(<<a, b>>) = RoomKeyOf(<<b, a>>)
    /\ \A r1 \in DOMAIN room_key, r2 \in DOMAIN room_key :
          room_key[r1] = room_key[r2] => r1 = r2
    /\ DOMAIN room_key = DOMAIN participants
    /\ \A r \in DOMAIN participants : \A u \in participants[r] :
          Pk(u) \in {room_key[r][1], room_key[r][2]}

\* a room was created for a pair listed in one order, and a request that
\* listed the pair in the other order created no second room
C17_Witness ==
    \E e1 \in DOMAIN roomReqs, e2 \in DOMAIN roomReqs :
        /\ roomReqs[e1].pc = "created"
        /\ roomReqs[e2].pc \in {"error", "exists", "joined"}
        /\ Len(roomReqs[e2].list) = 2
        /\ roomReqs[e1].list[1] # roomReqs[e1].list[2]
        /\ roomReqs[e2].list = <<roomReqs[e1].list[2], roomReqs[e1].list[1]>>
        /\ Cardinality({r \in DOMAIN room_key : room_key[r] = roomReqs[e1].key}) = 1

\* C18: a creation request whose list, with the requester, is not two
\* distinct users creates and changes no room, and no room has more than
\* two participants.
C18_OnlyPairs ==
    /\ \A e \in DOMAIN roomReqs :
          (Len(roomReqs[e].list) # 2
             \/ Cardinality({roomReqs[e].list[i] : i \in DOMAIN roomReqs[e].list}) # 2)
                => roomReqs[e].pc \notin {"created", "joined"}
    /\ \A r \in DOMAIN participants : Cardinality(participants[r]) <= 2

CommentsDone(u, p) ==
    {e \in DOMAIN handlers : /\ handlers[e].type = "comment" /\ handlers[e].pc = "done"
                             /\ handlers[e].sender = u /\ handlers[e].rel = p}

\* C20: with requests arriving one after the other, every comment by u on
\* post p has produced a comment notification of its own for the owner of
\* p: there are as many as u has commented on p.
C20_NotifyPerComment ==
    \A u \in Users, p \in Posts :
        InFlight = {} =>
            CopiesIn(NotifRow(PostOwner(p), u, "comment", p), notifs)
                = Cardinality(CommentsDone(u, p))

FollowsDone(u, v) ==
    {e \in DOMAIN handlers : /\ handlers[e].type = "follow" /\ handlers[e].pc = "done"
                             /\ handlers[e].sender = u /\ handlers[e].recipient = v}

\* C21: with requests arriving one after the other, every follow of v by u,
\* a follow after an unfollow included, has produced a follow notification
\* of its own for v: there are as many as u has followed v.
C21_RefollowNotifies ==
    \A u \in Users, v \in Users :
        InFlight = {} =>
            CopiesIn(NotifRow(v, u, "follow", NoRel), notifs)
                = Cardinality(FollowsDone(u, v))

\* C22: no stored notification has its sender as its recipient.
C22_NoSelfNotification ==
    \A row \in BagToSet(notifs) : row.sender # row.recipient

\* C23: a failure of group_send never fails the write that triggered it: a
\* receiver that creates a notification stores the row and returns, and a
\* message creation that reaches its broadcast keeps the message stored and
\* ends successfully.
C23_DeliveryFailureKeepsWrite ==
    [][/\ \A e \in DOMAIN handlers :
             handlers[e].pc = "create" /\ handlers'[e].pc # "create" =>
                 /\ handlers'[e].pc = "done"
                 /\ CopiesIn(HandlerRow(handlers[e]), notifs') > 0
       /\ \A m \in DOMAIN creates :
             creates[m].pc = "saved" /\ creates'[m].pc # "saved" =>
                 /\ creates'[m].pc = "done"
                 /\ m \in DOMAIN messages']_vars

\* C24: no anonymous connection is ever subscribed to a user's
\* notification group.
C24_SubscribedAreAuthenticated ==
    \A c \in nsubs : c.user # Anonymous

\* C25: a message request that broadcasts puts exactly one chat_message
\* event of its message on the room group, and at that moment every
\* message of the room that was stored before it has been broadcast.
C25_BroadcastInPersistedOrder ==
    [][\A m \in DOMAIN creates :
          creates[m].pc = "saved" /\ creates'[m].pc = "done" =>
              /\ inbox' = GroupSend(inbox, creates[m].room, ChatEvent(m, creates[m].sender))
              /\ \A k \in DOMAIN creates :
                    (k < m /\ creates[k].pc # "none" /\ creates[k].room = creates[m].room)
                        => creates[k].pc = "done"]_vars

\* C26: a session that handles the chat_message event of an inbound
\* message frame consumes the event and stays open: no session fails in its
\* chat_message handler.
C26_InboundMessageHandled ==
    [][\A s \in Sessions :
          (/\ sess[s].state = "open" /\ sess'[s].state # "closed"
           /\ inbox[s] # <<>> /\ inbox'[s] # inbox[s]
           /\ nRecv' = nRecv /\ creates' = creates
           /\ Head(inbox[s]) = RawChatEvent(0)) =>
              /\ sess'[s].state = "open"
              /\ inbox'[s] = Tail(inbox[s])]_vars

\* C27: every stored notification has been pushed to the notification
\* group of its recipient exactly as often as it was created.
C27_PushedOncePerNotification ==
    \A row \in BagToSet(notifs) :
        CopiesIn(PushEvent(row), pushes) = CopiesIn(row, notifs)

\* C28: a read acknowledgement over a session marks only messages of the
\* session's room that the session's user did not author.
C28_AckMarksOnlyIncoming ==
    [][\A s \in Sessions, mid \in 1..MaxMsgs :
          (/\ nRecv' = nRecv + 1
           /\ sess[s].state = "open"
           /\ inbox'[s] = Append(inbox[s], ReadEvent(mid))) =>
              \A k \in DOMAIN messages :
                  (~messages[k].is_read /\ k \in DOMAIN messages' /\ messages'[k].is_read) =>
                      /\ messages[k].room = sess[s].room
                      /\ messages[k].sender # sess[s].user]_vars

\* C29: every open session subscribed to a room group belongs to a user
\* who is a participant of that room.
C29_SubscribedAreParticipants ==
    \A s \in group :
        sess[s].state = "open" =>
            /\ RoomExists(sess[s].room)
            /\ sess[s].user \in participants[sess[s].room]

\* C30: a room request that finds the room of its pair still stored either
\* is rejected, when both users participate, and then no room and no
\* participant set changes; or, when one of them has left, it puts both
\* users into that room again, and the set of rooms, their keys and the
\* stored messages are what they were.
C30_Reactivation ==
    [][\A e \in DOMAIN roomReqs :
          LET q == roomReqs[e]
              listed == {q.list[i] : i \in DOMAIN q.list}
          IN (/\ q.pc = "looked" /\ roomReqs'[e].pc # "looked"
              /\ q.found # NoRoom /\ RoomExists(q.found)) =>
                 IF listed \subseteq participants[q.found]
                 THEN /\ roomReqs'[e].pc = "exists"
                      /\ participants' = participants
                      /\ room_key' = room_key
                      /\ messages' = messages
                 ELSE /\ roomReqs'[e].pc = "joined"
                      /\ roomReqs'[e].found = q.found
                      /\ participants'[q.found] = listed
                      /\ DOMAIN participants' = DOMAIN participants
                      /\ \A r \in DOMAIN participants \ {q.found} :
                            participants'[r] = participants[r]
                      /\ room_key' = room_key
                      /\ messages' = messages]_vars

\* a request has put both users back into r1 after one of them had left,
\* and the two messages of r1 are still stored
C30_Witness ==
    \E e \in DOMAIN roomReqs :
        /\ roomReqs[e].pc = "joined" /\ roomReqs[e].found = "r1"
        /\ RoomExists("r1") /\ participants["r1"] = Users
        /\ DOMAIN room_key = {"r1"}
        /\ messages = OrderMessages

====
